---- MODULE Spec2Model ----
(***************************************************************************)
(* A model of codecount.py: CodeCounter.run and the methods it calls       *)
(* (commandline, listfiles/walk, output, scanfile, remove_duplicates, the  *)
(* totals loop and the three reports), and the Filename helper class.      *)
(*                                                                         *)
(* Text is modelled as sequences of one-character strings, with Python's   *)
(* 0-based positions, so that str.find, slicing, str.replace, str.strip    *)
(* and str.startswith are computed the way the code computes them.         *)
(* Dictionaries iterate in insertion order (Python 3.7 and later).         *)
(***************************************************************************)
EXTENDS Integers, Sequences, FiniteSets, TLC

(***************************************************************************)
(* Bounds of the model.                                                    *)
(***************************************************************************)
\* most lines in a file of the scanner corpus
MaxLines == 3
\* most files in the tree handed to a run
MaxFiles == 3
\* most pieces (tokens, text, blanks) in a line handed to the while loop
MaxPieces == 4

(***************************************************************************)
(* Python values.                                                          *)
(***************************************************************************)
\* Python's None; str(None) is the text "None", which is what sorted() sees
None == "None"
\* None where the model compares it with text, a sequence of characters
NoneText == << "None" >>
NL == "\n"
\* a byte that is not valid UTF-8; open(..., errors="ignore") drops it
BadByte == "\\xff"
Whitespace == {" ", NL, "\t"}

\* line 353-354: decoding with errors="ignore" drops undecodable bytes
Decode(bytes) == SelectSeq(bytes, LAMBDA b : b # BadByte)

\* line 357: iterating a text file yields the lines, each with its newline
RECURSIVE SplitLinesFrom(_, _)
SplitLinesFrom(text, cur) ==
    IF text = << >>
    THEN IF cur = << >> THEN << >> ELSE << cur >>
    ELSE IF Head(text) = NL
         THEN << Append(cur, NL) >> \o SplitLinesFrom(Tail(text), << >>)
         ELSE SplitLinesFrom(Tail(text), Append(cur, Head(text)))

SplitLines(text) == SplitLinesFrom(text, << >>)

\* s[a:b] with 0 <= a, Python's clamping of b
Slice(s, a, b) ==
    LET hi == IF b > Len(s) THEN Len(s) ELSE b
    IN  IF a >= hi THEN << >> ELSE SubSeq(s, a + 1, hi)

\* s.startswith(t)
StartsWith(s, t) == Len(t) <= Len(s) /\ SubSeq(s, 1, Len(t)) = t

\* s.find(t, start): the lowest 0-based position >= start, or -1
Find(s, t, start) ==
    LET hits == { i \in start .. (Len(s) - Len(t)) : Slice(s, i, i + Len(t)) = t }
    IN  IF hits = {} THEN -1
        ELSE CHOOSE i \in hits : \A j \in hits : i <= j

\* t in s
Contains(s, t) == Find(s, t, 0) >= 0

\* s.replace(old, "", 1)
ReplaceFirst(s, old) ==
    LET p == Find(s, old, 0)
    IN  IF old = << >> \/ p < 0 THEN s
        ELSE Slice(s, 0, p) \o Slice(s, p + Len(old), Len(s))

\* s.replace(old, "")
RECURSIVE ReplaceAll(_, _)
ReplaceAll(s, old) ==
    LET p == Find(s, old, 0)
    IN  IF old = << >> \/ p < 0 THEN s
        ELSE Slice(s, 0, p) \o ReplaceAll(Slice(s, p + Len(old), Len(s)), old)

RECURSIVE LStrip(_)
LStrip(s) ==
    IF s # << >> /\ Head(s) \in Whitespace THEN LStrip(Tail(s)) ELSE s

RECURSIVE RStrip(_)
RStrip(s) ==
    IF s # << >> /\ s[Len(s)] \in Whitespace
    THEN RStrip(SubSeq(s, 1, Len(s) - 1)) ELSE s

\* s.strip()
Strip(s) == RStrip(LStrip(s))

(***************************************************************************)
(* The language registry, CodeCounter.langs.                               *)
(***************************************************************************)
BlockC == << [str |-> << "/", "*" >>, end |-> << "*", "/" >>] >>
BlockX == << [str |-> << "<", "!", "-", "-" >>, end |-> << "-", "-", ">" >>] >>
Slashes == << "/", "/" >>
Hash == << "#" >>
Quote == << "'" >>
EndMarker == << "_", "_", "E", "N", "D", "_", "_" >>

\* the names of the languages, in the order the dictionary literal lists them
LangNames ==
    << "C", "C++", "C#", "C Header", "CSS", "Cython", "Go", "HTML",
       "IBM Macro", "Java", "Javascript", "Perl", "PHP", "Python", "RPG",
       "Ruby", "SQL", "Text", "VB", "XML", "Yaml" >>

Rule(b, c, e, x) == [bcomm |-> b, comment |-> c, endcode |-> e, ext |-> x]

langs ==
    [l \in { LangNames[i] : i \in 1 .. Len(LangNames) } |->
        CASE l = "C"          -> Rule(BlockC, << Slashes >>, << >>, {<< ".", "c" >>})
          [] l = "C++"        -> Rule(BlockC, << Slashes >>, << >>, {<< ".", "c", "p", "p" >>})
          [] l = "C#"         -> Rule(BlockC, << Slashes >>, << >>, {<< ".", "c", "s" >>})
          [] l = "C Header"   -> Rule(BlockC, << Slashes >>, << >>, {<< ".", "h" >>})
          [] l = "CSS"        -> Rule(BlockC, << >>, << >>, {<< ".", "c", "s", "s" >>})
          [] l = "Cython"     -> Rule(<< >>, << Hash >>, << >>, {<< ".", "p", "y", "x" >>})
          [] l = "Go"         -> Rule(<< >>, << Slashes >>, << >>, {<< ".", "g", "o" >>})
          [] l = "HTML"       -> Rule(BlockX, << >>, << >>,
                                      {<< ".", "h", "t", "m", "l" >>, << ".", "h", "t", "m" >>, << ".", "j", "i", "n", "j", "a" >>})
          [] l = "IBM Macro"  -> Rule(BlockC, << Quote >>, << >>, {<< ".", "m", "a", "c" >>})
          [] l = "Java"       -> Rule(BlockC, << Slashes >>, << >>, {<< ".", "j", "a", "v", "a" >>})
          [] l = "Javascript" -> Rule(BlockC, << Slashes >>, << >>, {<< ".", "j", "s" >>})
          [] l = "Perl"       -> Rule(<< >>, << Slashes, Hash >>,
                                      << EndMarker >>, {<< ".", "p", "l" >>})
          [] l = "PHP"        -> Rule(BlockC, << Slashes, Hash >>, << >>,
                                      {<< ".", "p", "h", "p" >>})
          [] l = "Python"     -> Rule(<< >>, << Hash >>, << >>, {<< ".", "p", "y" >>, << ".", "p", "y", "w" >>})
          [] l = "RPG"        -> Rule(<< >>,
                                      << << "*" >>, << "*" >>,
                                         << "C", "*" >>, << "c", "*" >>,
                                         << "D", "*" >>, << "d", "*" >>,
                                         << "F", "*" >>, << "f", "*" >>,
                                         << "H", "*" >>, << "h", "*" >> >>,
                                      << >>, {<< ".", "r", "p", "g", "l", "e" >>, << ".", "s", "q", "l", "r", "p", "g", "l", "e" >>})
          [] l = "Ruby"       -> Rule(<< >>, << Hash >>, << EndMarker >>, {<< ".", "r", "b" >>})
          [] l = "SQL"        -> Rule(<< >>, << >>, << >>, {<< ".", "s", "q", "l" >>})
          [] l = "Text"       -> Rule(<< >>, << >>, << >>, {<< ".", "t", "x", "t" >>})
          [] l = "VB"         -> Rule(BlockC, << Quote >>, << >>,
                                      {<< ".", "v", "b" >>, << ".", "m", "a", "c" >>, << ".", "f", "r", "m" >>, << ".", "b", "a", "s" >>})
          [] l = "XML"        -> Rule(BlockX, << >>, << >>, {<< ".", "x", "m", "l" >>, << ".", "c", "s", "p", "r", "o", "j" >>})
          [] l = "Yaml"       -> Rule(<< >>, << Hash >>, << >>, {<< ".", "y", "a", "m", "l" >>}) ]

(***************************************************************************)
(* class Filename.                                                         *)
(***************************************************************************)
\* str.lower(), on the characters that file names of the model are made of
LowerChar(c) ==
    CASE c = "A" -> "a" [] c = "B" -> "b" [] c = "C" -> "c"
      [] c = "L" -> "l" [] c = "M" -> "m" [] c = "P" -> "p"
      [] OTHER -> c

Lower(s) == [i \in 1 .. Len(s) |-> LowerChar(s[i])]

\* os.path.splitext(filename)[1]: from the last dot on, when a character
\* other than a dot precedes that dot; otherwise empty
Splitext1(filename) ==
    LET dots == { i \in 1 .. Len(filename) : filename[i] = "." }
    IN  IF dots = {} THEN << >>
        ELSE LET d == CHOOSE i \in dots : \A j \in dots : j <= i
             IN  IF \E k \in 1 .. (d - 1) : filename[k] # "."
                 THEN SubSeq(filename, d, Len(filename))
                 ELSE << >>

ShortPathWidth == 78
ShortNameLimit == 30
ShortNameKeep == 20

\* Filename.__init__; size is what os.stat reports for the file
Filename(argpath, path, filename, size) ==
    LET extension == Lower(Splitext1(filename))
    IN  [ path      |-> path,
          name      |-> filename,
          extension |-> extension,
          lang      |-> None,
          lines     |-> 0,
          comments  |-> 0,
          blanks    |-> 0,
          code      |-> 0,
          size      |-> size,
          sha256    |-> NoneText,
          shortpath |-> << "." >> \o
                        Strip(Slice(path, Len(argpath),
                                    Len(argpath) + ShortPathWidth)),
          shortname |-> IF Len(filename) > ShortNameLimit
                        THEN Strip(Slice(filename, 0, ShortNameKeep))
                                 \o << "~" >> \o extension
                        ELSE filename ]

(***************************************************************************)
(* CodeCounter.scanfile: the classification of one line.                   *)
(***************************************************************************)
\* WhileToken, were the loop to end after the first block comment excised
WhileTokenOnce(line, strblock, endblock, inblock) ==
    IF ~Contains(line, strblock)
    THEN [line |-> line, inblock |-> inblock]
    ELSE LET spos == Find(line, strblock, 0)
             epos == Find(line, endblock, spos)
         IN  IF epos > 0
             THEN [line |-> ReplaceFirst(line,
                                Slice(line, spos, epos + Len(endblock))),
                   inblock |-> inblock]
             ELSE [line |-> line, inblock |-> inblock]

\* lines 388-403: the while loop for one block comment pair
RECURSIVE WhileToken(_, _, _, _)
WhileToken(line, strblock, endblock, inblock) ==
    IF ~Contains(line, strblock)
    THEN [line |-> line, inblock |-> inblock]
    ELSE LET spos == Find(line, strblock, 0)
             epos == Find(line, endblock, spos)
         IN  IF epos > 0
             THEN IF Contains(line, endblock)
                  THEN WhileToken(
                           ReplaceFirst(line,
                               Slice(line, spos, epos + Len(endblock))),
                           strblock, endblock, inblock)
                  ELSE WhileToken(
                           ReplaceFirst(line, Slice(line, spos, Len(line))),
                           strblock, endblock, TRUE)
             ELSE [line |-> line, inblock |-> inblock]

\* lines 384-403: the for loop over the rule's block comment pairs
RECURSIVE ForBcomm(_, _)
ForBcomm(bcomm, s) ==
    IF bcomm = << >> THEN s
    ELSE LET token == Head(bcomm)
             w == WhileToken(s.line, token.str, token.end, s.inblock)
         IN  ForBcomm(Tail(bcomm),
                      [ line     |-> w.line,
                        strblock |-> token.str,
                        endblock |-> token.end,
                        inblock  |-> w.inblock ])

\* lines 405-412: a block comment was left open by an earlier line
InBlock(s) ==
    IF Contains(s.line, s.endblock)
    THEN [ s EXCEPT
             !.inblock = FALSE,
             !.line = Strip(ReplaceAll(s.line,
                          Slice(s.line, 0,
                                Find(s.line, s.endblock, 0)
                                    + Len(s.endblock)))) ]
    ELSE [ s EXCEPT !.line = << >> ]

\* lines 383-412
RemoveBlocks(rule, s) ==
    IF ~s.inblock THEN ForBcomm(rule.bcomm, s) ELSE InBlock(s)

\* IsLineComment, were line 422 to test "token in line"
IsLineCommentContains(rule, line) ==
    \E k \in 1 .. Len(rule.comment) : Contains(line, rule.comment[k])

\* lines 421-426
IsLineComment(rule, line) ==
    \E k \in 1 .. Len(rule.comment) : StartsWith(line, rule.comment[k])

\* IsEndCode, were line 437 to test "end in line"
IsEndCodeContains(rule, line) ==
    \E k \in 1 .. Len(rule.endcode) : Contains(line, rule.endcode[k])

\* lines 436-438
IsEndCode(rule, line) ==
    \E k \in 1 .. Len(rule.endcode) : line = rule.endcode[k]

\* ScanLine, were the test of lines 415-418 for an empty line left out
ScanLineEmptyUntested(rule, st, raw) ==
    LET line == Strip(raw)
        keep == [ strblock |-> st.strblock, endblock |-> st.endblock,
                  inblock  |-> st.inblock,  endcode  |-> st.endcode ]
    IN  IF line = << >>
        THEN keep @@ [kind |-> "blanks", line |-> line]
        ELSE IF st.endcode
        THEN keep @@ [kind |-> "comments", line |-> line]
        ELSE LET b == RemoveBlocks(rule,
                          [ line     |-> line,
                            strblock |-> st.strblock,
                            endblock |-> st.endblock,
                            inblock  |-> st.inblock ])
                 after == [ strblock |-> b.strblock, endblock |-> b.endblock,
                            inblock  |-> b.inblock,  line     |-> b.line ]
             IN  IF IsLineComment(rule, b.line)
                 THEN after @@ [kind |-> "comments", endcode |-> st.endcode]
                 ELSE after @@ [kind |-> "code",
                                endcode |-> st.endcode
                                            \/ IsEndCode(rule, b.line)]

\* lines 360-438: one pass of the loop body on the raw line.  st holds the
\* locals strblock, endblock, inblock, endcode; the result holds them after
\* the pass, the line as last rewritten and the counter that was incremented
\* (line 415 tests `line is ""`: CPython has one empty string object, so
\* the test is that of equality)
ScanLine(rule, st, raw) ==
    LET line == Strip(raw)
        keep == [ strblock |-> st.strblock, endblock |-> st.endblock,
                  inblock  |-> st.inblock,  endcode  |-> st.endcode ]
    IN  IF line = << >>
        THEN keep @@ [kind |-> "blanks", line |-> line]
        ELSE IF st.endcode
        THEN keep @@ [kind |-> "comments", line |-> line]
        ELSE LET b == RemoveBlocks(rule,
                          [ line     |-> line,
                            strblock |-> st.strblock,
                            endblock |-> st.endblock,
                            inblock  |-> st.inblock ])
                 after == [ strblock |-> b.strblock, endblock |-> b.endblock,
                            inblock  |-> b.inblock,  line     |-> b.line ]
             IN  IF b.line = << >>
                 THEN after @@ [kind |-> "comments", endcode |-> st.endcode]
                 ELSE IF IsLineComment(rule, b.line)
                 THEN after @@ [kind |-> "comments", endcode |-> st.endcode]
                 ELSE after @@ [kind |-> "code",
                                endcode |-> st.endcode
                                            \/ IsEndCode(rule, b.line)]

\* Tally, were the lines counted as comments to leave the comment counter
\* alone
TallyCommentLost(f, kind) ==
    [ f EXCEPT !.lines = @ + 1,
               !.blanks = IF kind = "blanks" THEN @ + 1 ELSE @,
               !.code = IF kind = "code" THEN @ + 1 ELSE @ ]

\* lines 359, 365, 369, 417, 424, 433: the counters of the record
Tally(f, kind) ==
    [ f EXCEPT !.lines = @ + 1,
               !.blanks = IF kind = "blanks" THEN @ + 1 ELSE @,
               !.comments = IF kind = "comments" THEN @ + 1 ELSE @,
               !.code = IF kind = "code" THEN @ + 1 ELSE @ ]

\* Resolve, were an extension that no language lists to fall back on the
\* rule without comments
ResolveOrText(extension) ==
    LET hits == { i \in 1 .. Len(LangNames) :
                      extension \in langs[LangNames[i]].ext }
    IN  IF hits = {} THEN "Text"
        ELSE LangNames[CHOOSE i \in hits : \A j \in hits : i <= j]

\* lines 340-343: the first language, in the registry's order, that lists
\* the extension
Resolve(extension) ==
    LET hits == { i \in 1 .. Len(LangNames) :
                      extension \in langs[LangNames[i]].ext }
    IN  IF hits = {} THEN None
        ELSE LangNames[CHOOSE i \in hits : \A j \in hits : i <= j]

(***************************************************************************)
(* The file tree on disk: a sequence of files in the order os.walk visits  *)
(* them, each with the directory it is in, its name and its bytes.  Trees  *)
(* of the model are one level deep: a file is in the top directory or in   *)
(* a folder of it.                                                         *)
(***************************************************************************)
ignoredirs ==
    { << ".", "h", "g" >>, << ".", "b", "z", "r" >>, << ".", "s", "v", "n" >>,
      << ".", "g", "i", "t" >>, << ".", "i", "d", "e", "a" >>,
      << "_", "_", "p", "y", "c", "a", "c", "h", "e", "_", "_" >> }

\* os.path.split(path): what precedes the last slash, and what follows it
OsPathSplit(path) ==
    LET cuts == { i \in 1 .. Len(path) : path[i] = "/" }
    IN  IF cuts = {} THEN << << >>, path >>
        ELSE LET c == CHOOSE i \in cuts : \A j \in cuts : j <= i
             IN  << SubSeq(path, 1, c - 1), SubSeq(path, c + 1, Len(path)) >>

IsDir(tree, path) == \E i \in 1 .. Len(tree) : tree[i].root = path

IsFile(tree, root, filename) ==
    \E i \in 1 .. Len(tree) : tree[i].root = root /\ tree[i].name = filename

StatSize(tree, root, filename) ==
    LET i == CHOOSE k \in 1 .. Len(tree) :
                 tree[k].root = root /\ tree[k].name = filename
    IN  Len(tree[i].bytes)

\* the bytes of the file a record was made for
Bytes(tree, f) ==
    LET i == CHOOSE k \in 1 .. Len(tree) :
                 tree[k].root = f.path /\ tree[k].name = f.name
    IN  tree[i].bytes

\* lines 313-324: os.walk from path, with the ignored folders taken out of
\* the folders to descend into
RECURSIVE Walk(_, _)
Walk(tree, path) ==
    IF tree = << >> THEN << >>
    ELSE LET e == Head(tree)
             visited == \/ e.root = path
                        \/ /\ OsPathSplit(e.root)[1] = path
                           /\ OsPathSplit(e.root)[2] \notin ignoredirs
         IN  (IF visited
              THEN << Filename(path, e.root, e.name, Len(e.bytes)) >>
              ELSE << >>) \o Walk(Tail(tree), path)

\* lines 301-309
ListFiles(tree, path) ==
    IF IsDir(tree, path) THEN Walk(tree, path)
    ELSE LET root == OsPathSplit(path)[1]
             filename == OsPathSplit(path)[2]
         IN  IF IsFile(tree, root, filename)
             THEN << Filename(path, root, filename,
                              StatSize(tree, root, filename)) >>
             ELSE << >>

(***************************************************************************)
(* CodeCounter.remove_duplicates.                                          *)
(***************************************************************************)
\* Unique, without the test of line 471: a later record of the same digest
\* takes the place of the earlier one
RECURSIVE UniqueLastWins(_, _)
UniqueLastWins(list, unique) ==
    IF list = << >> THEN unique
    ELSE LET filename == Head(list)
         IN  UniqueLastWins(Tail(list),
                 IF \E k \in 1 .. Len(unique) :
                        unique[k].key = filename.sha256
                 THEN [k \in 1 .. Len(unique) |->
                          IF unique[k].key = filename.sha256
                          THEN [key |-> filename.sha256, value |-> filename]
                          ELSE unique[k]]
                 ELSE Append(unique, [key |-> filename.sha256,
                                      value |-> filename]))

\* lines 470-472: the dictionary unique, as its items in insertion order
RECURSIVE Unique(_, _)
Unique(list, unique) ==
    IF list = << >> THEN unique
    ELSE LET filename == Head(list)
         IN  Unique(Tail(list),
                    IF \E k \in 1 .. Len(unique) :
                           unique[k].key = filename.sha256
                    THEN unique
                    ELSE Append(unique, [key |-> filename.sha256,
                                         value |-> filename]))

\* lines 467-477
RemoveDuplicatesList(list) ==
    LET unique == Unique(list, << >>)
    IN  [k \in 1 .. Len(unique) |-> unique[k].value]

(***************************************************************************)
(* The totals loop of run.                                                 *)
(***************************************************************************)
\* lines 204-211
RECURSIVE TotalsOf(_, _)
TotalsOf(list, t) ==
    IF list = << >> THEN t
    ELSE LET filename == Head(list)
         IN  TotalsOf(Tail(list),
                 [ tfiles    |-> IF filename.lines > 0
                                 THEN t.tfiles + 1 ELSE t.tfiles,
                   tlines    |-> t.tlines + filename.lines,
                   tcode     |-> t.tcode + filename.code,
                   tcomments |-> t.tcomments + filename.comments,
                   tblanks   |-> t.tblanks + filename.blanks ])

(***************************************************************************)
(* The reports.  What is printed is a sequence of rows.                    *)
(***************************************************************************)
\* ord(c), for the characters that paths of the model are made of
Ord(c) ==
    CASE c = "." -> 46 [] c = "/" -> 47 [] c = "_" -> 95
      [] c = "a" -> 97 [] c = "b" -> 98 [] c = "c" -> 99 [] c = "d" -> 100
      [] c = "e" -> 101 [] c = "g" -> 103 [] c = "h" -> 104 [] c = "i" -> 105
      [] c = "l" -> 108 [] c = "m" -> 109 [] c = "p" -> 112 [] c = "s" -> 115
      [] c = "t" -> 116 [] c = "y" -> 121 [] c = "z" -> 122
      [] OTHER -> 63

\* a < b for strings
RECURSIVE StrLess(_, _)
StrLess(a, b) ==
    IF b = << >> THEN FALSE
    ELSE IF a = << >> THEN TRUE
    ELSE IF Head(a) # Head(b) THEN Ord(Head(a)) < Ord(Head(b))
    ELSE StrLess(Tail(a), Tail(b))

\* str(lang) of every language and of None, in ascending string order
LangSorted ==
    << "C", "C Header", "C#", "C++", "CSS", "Cython", "Go", "HTML",
       "IBM Macro", "Java", "Javascript", "None", "PHP", "Perl", "Python",
       "RPG", "Ruby", "SQL", "Text", "VB", "XML", "Yaml" >>

LangRank(l) == CHOOSE k \in 1 .. Len(LangSorted) : LangSorted[k] = l

\* sorted(list, key): stable.  less[i][j] tells whether the key of list[i]
\* is less than the key of list[j]; order is the sorted sequence of indices
RECURSIVE Insert(_, _, _)
Insert(order, x, less) ==
    IF order = << >> THEN << x >>
    ELSE IF less[x][Head(order)] THEN << x >> \o order
    ELSE << Head(order) >> \o Insert(Tail(order), x, less)

RECURSIVE SortedOrder(_, _)
SortedOrder(n, less) ==
    IF n = 0 THEN << >> ELSE Insert(SortedOrder(n - 1, less), n, less)

Sorted(list, less) ==
    LET order == SortedOrder(Len(list), less)
    IN  [k \in 1 .. Len(list) |-> list[order[k]]]

\* lines 479-495
ReportHeader(reporttype) == [row |-> "header", text |-> reporttype]

\* lines 497-506
ReportDetail(text, files, blanks, comments, code, lines) ==
    [ row |-> "detail", text |-> text, files |-> files, blanks |-> blanks,
      comments |-> comments, code |-> code, lines |-> lines ]

\* lines 508-521
ReportSummary(t) ==
    [ row |-> "summary", text |-> "Totals", files |-> t.tfiles,
      blanks |-> t.tblanks, comments |-> t.tcomments, code |-> t.tcode,
      lines |-> t.tlines ]

\* FileRows, were the records without a language not passed over
FileRowsAll(list) ==
    [ k \in 1 .. Len(list) |->
          ReportDetail(list[k].shortname, 1, list[k].blanks, list[k].comments,
                       list[k].code, list[k].lines) ]

\* lines 528-544
RECURSIVE FileRows(_)
FileRows(list) ==
    IF list = << >> THEN << >>
    ELSE LET filename == Head(list)
         IN  (IF filename.lang = None THEN << >>
              ELSE << ReportDetail(filename.shortname, 1, filename.blanks,
                                   filename.comments, filename.code,
                                   filename.lines) >>)
             \o FileRows(Tail(list))

\* lines 523-546; reverse=True keeps the order of records with equal code
ReportFile(list, t) ==
    << ReportHeader("By File") >>
    \o FileRows(Sorted(list, [i \in 1 .. Len(list) |->
                               [j \in 1 .. Len(list) |->
                                   list[i].code > list[j].code]]))
    \o << ReportSummary(t) >>

GroupDetail(text, total) ==
    ReportDetail(text, total.file, total.blank, total.comment, total.code,
                 total.line)

\* lines 571-575 and 636-640
GroupAdd(total, filename) ==
    [ total EXCEPT !.blank = @ + filename.blanks,
                   !.comment = @ + filename.comments,
                   !.file = @ + 1,
                   !.code = @ + filename.code,
                   !.line = @ + filename.lines ]

\* lines 591-596 and 655-660
GroupStart(key, filename) ==
    [ key |-> key, blank |-> filename.blanks, comment |-> filename.comments,
      file |-> 1, code |-> filename.code, line |-> filename.lines ]

\* lines 554-561 and 620-627
GroupNone(none) ==
    [key |-> none, blank |-> 0, comment |-> 0, file |-> 0, code |-> 0,
     line |-> 0]

\* lines 563-610: the loop over the sorted records, then the last group
RECURSIVE DirRows(_, _)
DirRows(list, total) ==
    IF list = << >>
    THEN IF total.key # NoneText THEN << GroupDetail(<< >>, total) >> ELSE << >>
    ELSE LET filename == Head(list)
         IN  IF filename.shortpath = NoneText
             THEN DirRows(Tail(list), total)
             ELSE IF filename.shortpath = total.key
             THEN DirRows(Tail(list), GroupAdd(total, filename))
             ELSE (IF total.key # NoneText
                   THEN << GroupDetail(<< >>, total), [row |-> "rule"] >>
                   ELSE << >>)
                  \o << [row |-> "dir", text |-> filename.shortpath] >>
                  \o DirRows(Tail(list),
                             GroupStart(filename.shortpath, filename))

\* lines 548-612
ReportDir(list, t) ==
    << ReportHeader("By Directory") >>
    \o DirRows(Sorted(list, [i \in 1 .. Len(list) |->
                              [j \in 1 .. Len(list) |->
                                  StrLess(list[i].shortpath,
                                          list[j].shortpath)]]),
               GroupNone(NoneText))
    \o << ReportSummary(t) >>

\* LangRows, were the group collected last not printed after the loop
RECURSIVE LangRowsLastLost(_, _)
LangRowsLastLost(list, total) ==
    IF list = << >> THEN << >>
    ELSE LET filename == Head(list)
         IN  IF filename.lang = None
             THEN LangRowsLastLost(Tail(list), total)
             ELSE IF filename.lang = total.key
             THEN LangRowsLastLost(Tail(list), GroupAdd(total, filename))
             ELSE (IF total.key # None
                   THEN << GroupDetail(total.key, total) >>
                   ELSE << >>)
                  \o LangRowsLastLost(Tail(list),
                                      GroupStart(filename.lang, filename))

\* lines 628-673: the loop over the sorted records, then the last group
RECURSIVE LangRows(_, _)
LangRows(list, total) ==
    IF list = << >>
    THEN IF total.key # None THEN << GroupDetail(total.key, total) >>
         ELSE << >>
    ELSE LET filename == Head(list)
         IN  IF filename.lang = None
             THEN LangRows(Tail(list), total)
             ELSE IF filename.lang = total.key
             THEN LangRows(Tail(list), GroupAdd(total, filename))
             ELSE (IF total.key # None
                   THEN << GroupDetail(total.key, total) >>
                   ELSE << >>)
                  \o LangRows(Tail(list), GroupStart(filename.lang, filename))

\* lines 614-675
ReportLang(list, t) ==
    << ReportHeader("By Language") >>
    \o LangRows(Sorted(list, [i \in 1 .. Len(list) |->
                               [j \in 1 .. Len(list) |->
                                   LangRank(list[i].lang)
                                       < LangRank(list[j].lang)]]),
                GroupNone(None))
    \o << ReportSummary(t) >>

\* lines 456-463
ReportOf(a, list, t) ==
    IF a.bylang THEN ReportLang(list, t)
    ELSE IF a.bygroup THEN ReportDir(list, t)
    ELSE IF a.byfile THEN ReportFile(list, t)
    ELSE << >>

(***************************************************************************)
(* The inputs of a run: the command line and the file tree.                *)
(***************************************************************************)
TopDir == << "p" >>
SubDir == << "p", "/", "s" >>
GitDir == << "p", "/", ".", "g", "i", "t" >>
NameC == << "a", ".", "c" >>
NamePL == << "B", ".", "P", "L" >>
NameZip == << "z", ".", "z", "i", "p" >>
NameMac == << "m", ".", "m", "a", "c" >>
NameCss == << "a", ".", "c", "s", "s" >>
FilePath == << "p", "/", "a", ".", "c" >>
NoPath == << "q" >>

Text1 == << "x", NL >>
Text2 == << "x", NL, NL, "#", NL >>
Text3 == EndMarker \o << NL, "x", NL >>
TextBad == << BadByte >>

File(root, name, bytes) == [root |-> root, name |-> name, bytes |-> bytes]

\* the files a tree of a run is drawn from, in the order os.walk meets them
TreeFiles ==
    << File(TopDir, NameC, << >>),    File(TopDir, NameC, Text1),
       File(TopDir, NameC, Text2),    File(TopDir, NameC, TextBad),
       File(TopDir, NamePL, << >>),   File(TopDir, NamePL, Text1),
       File(TopDir, NamePL, Text2),   File(TopDir, NamePL, Text3),
       File(TopDir, NameZip, << >>),  File(TopDir, NameZip, Text1),
       File(TopDir, NameMac, Text1),
       File(GitDir, NameC, Text1),
       File(SubDir, NameC, Text1),    File(SubDir, NameC, Text2),
       File(SubDir, NamePL, Text1),   File(SubDir, NamePL, Text2),
       File(SubDir, NamePL, Text3),
       File(SubDir, NameZip, << >>),  File(SubDir, NameZip, Text2) >>

\* the trees of at most n files: files of TreeFiles, in its order, no two of
\* them the same file of the same directory
TreesOf(files, n) ==
    LET picks == UNION { [1 .. k -> 1 .. Len(files)] : k \in 0 .. n }
        ok(pk) == \A i, j \in DOMAIN pk :
                      i < j => /\ pk[i] < pk[j]
                               /\ ~ (/\ files[pk[i]].root = files[pk[j]].root
                                     /\ files[pk[i]].name = files[pk[j]].name)
    IN  { [i \in DOMAIN pk |-> files[pk[i]]] : pk \in { q \in picks : ok(q) } }

Trees == TreesOf(TreeFiles, MaxFiles)

\* the lines the files of the scanner corpus are made of
Line1 == << "x" >>
Line2 == << >>
Line3 == << "/", "*" >>
Line4 == << "*", "/", " ", "x" >>
Line5 == << "x", " ", "/", "*" >>
Line6 == << "/", "*", "*", "/" >>
Line7 == << "/", "/", " ", "c" >>
Line8 == EndMarker
Line9 == << "x" >> \o EndMarker
Line10 == << " " >> \o EndMarker \o << " " >>

ScanLines ==
    { Line1, Line2, Line3, Line4, Line5, Line6, Line7, Line8, Line9, Line10 }

RECURSIVE JoinLines(_)
JoinLines(ls) ==
    IF ls = << >> THEN << >>
    ELSE Head(ls) \o << NL >> \o JoinLines(Tail(ls))

\* int x; /* start | still comment | end */ int y;
BlockExample ==
    JoinLines(<< << "i", "n", "t", " ", "x", ";", " ", "/", "*", " ",
                    "s", "t", "a", "r", "t" >>,
                 << "s", "t", "i", "l", "l", " ",
                    "c", "o", "m", "m", "e", "n", "t" >>,
                 << "e", "n", "d", " ", "*", "/", " ",
                    "i", "n", "t", " ", "y", ";" >> >>)

\* code(); | __END__ | more(); | (empty)
SentinelExample ==
    JoinLines(<< << "c", "o", "d", "e", "(", ")", ";" >>,
                 EndMarker,
                 << "m", "o", "r", "e", "(", ")", ";", " " >>,
                 << >> >>)

\* /*  */ if x; /* */ ..   (ex4 of lines 372-379)
Ex4 ==
    << "/", "*", " ", " ", "*", "/", " ", "i", "f", " ", "x", ";", " ",
       "/", "*", " ", "*", "/", " ", ".", "." >>

\* /* */   (ex5 of lines 372-379)
Ex5 == << "/", "*", " ", "*", "/" >>

\* /* a */ /* b */
TwoBlocks ==
    << "/", "*", " ", "a", " ", "*", "/", " ", "/", "*", " ", "b", " ",
       "*", "/" >>

\* /* a */ // b
BlockThenLine ==
    << "/", "*", " ", "a", " ", "*", "/", " ", "/", "/", " ", "b" >>

\* x // c
TrailingComment == << "x", " ", "/", "/", " ", "c" >>

ExampleLines == { Ex4, Ex5, TwoBlocks, BlockThenLine, TrailingComment }

\* files of one example line, and ex4 with a line of code after it
ExampleTexts ==
    { JoinLines(<< l >>) : l \in ExampleLines }
    \cup { JoinLines(<< Ex4, Line1 >>) }

ScanTexts ==
    { BlockExample, SentinelExample }
    \cup ExampleTexts
    \cup { JoinLines(ls) :
             ls \in UNION { [1 .. k -> ScanLines] : k \in 0 .. MaxLines } }

\* the texts scanned under a rule with block comments and no line comment
\* prefix
CssTexts ==
    ExampleTexts \cup { JoinLines(<< l >>) : l \in ScanLines }

\* the trees of the scanner corpus: one file, of a language with block
\* comments and line comments, of a language with an end of code marker, or
\* of a language with block comments only
ScanTrees ==
    { << File(TopDir, name, bytes) >> :
          name \in {NameC, NamePL}, bytes \in ScanTexts }
    \cup { << File(TopDir, NameCss, bytes) >> : bytes \in CssTexts }

\* a command line: the options given and the path
Argv(flags, include, path) ==
    [flags |-> flags, include |-> include, path |-> path]

Argvs ==
    { Argv(fl, inc, TopDir) :
          fl \in { {}, {"-f"}, {"-g"}, {"-l"}, {"-o"}, {"-g", "-l"} },
          inc \in BOOLEAN }
    \cup { Argv({}, FALSE, FilePath), Argv({}, FALSE, NoPath) }

ScanArgvs == { Argv({}, FALSE, TopDir), Argv({"-g", "-l"}, FALSE, TopDir) }

\* lines 240-270: -f, -g, -l and -o exclude each other
ParseFails(v) == Cardinality(v.flags \cap {"-f", "-g", "-l", "-o"}) > 1

\* lines 229-299: the namespace parse_args returns
ParseArgs(v) ==
    [ path             |-> v.path,
      byfile           |-> TRUE,
      bygroup          |-> "-g" \in v.flags,
      bylang           |-> "-l" \in v.flags,
      output_languages |-> "-o" \in v.flags,
      time             |-> TRUE,
      debug            |-> FALSE,
      include          |-> v.include,
      markup           |-> None ]

(***************************************************************************)
(* The state of a run.                                                     *)
(***************************************************************************)
VARIABLES
    pc,          \* where run is
    argv,        \* the command line
    disk,        \* the file tree
    args,        \* self.args
    filelist,    \* self.filelist
    totals,      \* self.tfiles, tlines, tcode, tcomments, tblanks
    fidx,        \* the position of the loop of line 198 in filelist
    fp,          \* scanfile: the lines of the open file not yet read
    local,       \* scanfile: strblock, endblock, inblock, endcode
    line,        \* scanfile: line, as the last pass of the loop left it
    sha256,      \* scanfile: the text the running digest has been fed
    stdout,      \* the rows printed
    dumped,      \* languages.json has been written
    walked,      \* listfiles has looked at the file tree
    exitstatus   \* << >> while the process runs, then << its exit status >>

vars ==
    << pc, argv, disk, args, filelist, totals, fidx, fp, local, line, sha256,
       stdout, dumped, walked, exitstatus >>

\* lines 329-332
LocalInit ==
    [strblock |-> NoneText, endblock |-> NoneText, inblock |-> FALSE,
     endcode |-> FALSE]

\* ScanfileLocals, were strblock, endblock, inblock and endcode to outlive
\* the call, as attributes of the counter do
ScanfileLocalsKept(prev) == prev

\* lines 329-332: scanfile assigns its locals anew on every call, whatever
\* the call before left in them
ScanfileLocals(prev) == LocalInit

\* lines 177-184
TotalsInit ==
    [tfiles |-> 0, tlines |-> 0, tcode |-> 0, tcomments |-> 0, tblanks |-> 0]

InitFrom(trees, argvs) ==
    /\ pc = "commandline"
    /\ argv \in argvs
    /\ disk \in trees
    /\ args = None
    /\ filelist = << >>
    /\ totals = TotalsInit
    /\ fidx = 0
    /\ fp = << >>
    /\ local = LocalInit
    /\ line = NoneText
    /\ sha256 = NoneText
    /\ stdout = << >>
    /\ dumped = FALSE
    /\ walked = FALSE
    /\ exitstatus = << >>

Init == InitFrom(Trees, Argvs)

InitScan == InitFrom(ScanTrees, ScanArgvs)

\* line 188, line 299: the command line parses
Commandline ==
    /\ pc = "commandline"
    /\ ~ParseFails(argv)
    /\ args' = ParseArgs(argv)
    /\ pc' = "listfiles"
    /\ UNCHANGED << argv, disk, filelist, totals, fidx, fp, local, line,
                    sha256, stdout, dumped, walked, exitstatus >>

\* line 299: parse_args reports the error and exits with status 2
CommandlineError ==
    /\ pc = "commandline"
    /\ ParseFails(argv)
    /\ exitstatus' = << 2 >>
    /\ pc' = "exit"
    /\ UNCHANGED << argv, disk, args, filelist, totals, fidx, fp, local,
                    line, sha256, stdout, dumped, walked >>

\* line 194
Listfiles ==
    /\ pc = "listfiles"
    /\ filelist' = ListFiles(disk, args.path)
    /\ walked' = TRUE
    /\ pc' = "output"
    /\ UNCHANGED << argv, disk, args, totals, fidx, fp, local, line, sha256,
                    stdout, dumped, exitstatus >>

\* line 196, lines 680-686: sys.exit with a message prints it and exits
\* with status 1
Output ==
    /\ pc = "output"
    /\ IF args.output_languages
       THEN /\ dumped' = TRUE
            /\ exitstatus' = << 1 >>
            /\ pc' = "exit"
            /\ fidx' = fidx
       ELSE /\ pc' = "scan"
            /\ fidx' = 1
            /\ UNCHANGED << dumped, exitstatus >>
    /\ UNCHANGED << argv, disk, args, filelist, totals, fp, local, line,
                    sha256, stdout, walked >>

\* lines 198-199, 329-355: the next record is handed to scanfile, which
\* returns at once or opens the file
ScanfileBegin ==
    /\ pc = "scan"
    /\ fidx <= Len(filelist)
    /\ local' = ScanfileLocals(local)
    /\ sha256' = << >>
    /\ LET filename == filelist[fidx]
           lang == Resolve(filename.extension)
       IN  IF filename.size = 0
           THEN /\ fidx' = fidx + 1
                /\ UNCHANGED << pc, filelist, fp >>
           ELSE /\ filelist' = [filelist EXCEPT ![fidx].lang = lang]
                /\ IF lang = None
                   THEN /\ fidx' = fidx + 1
                        /\ UNCHANGED << pc, fp >>
                   ELSE /\ fp' = SplitLines(Decode(Bytes(disk, filename)))
                        /\ pc' = "lines"
                        /\ fidx' = fidx
    /\ UNCHANGED << argv, disk, args, totals, line, stdout, dumped, walked,
                    exitstatus >>

\* lines 357-438: one pass of the loop over the lines of the file
ScanfileLine ==
    /\ pc = "lines"
    /\ fp # << >>
    /\ LET raw == Head(fp)
           r == ScanLine(langs[filelist[fidx].lang], local, raw)
       IN  /\ sha256' = sha256 \o raw
           /\ filelist' = [filelist EXCEPT ![fidx] = Tally(@, r.kind)]
           /\ local' = [strblock |-> r.strblock, endblock |-> r.endblock,
                        inblock |-> r.inblock, endcode |-> r.endcode]
           /\ line' = r.line
    /\ fp' = Tail(fp)
    /\ UNCHANGED << pc, argv, disk, args, totals, fidx, stdout, dumped,
                    walked, exitstatus >>

\* line 451: the file is read to its end
ScanfileEnd ==
    /\ pc = "lines"
    /\ fp = << >>
    /\ filelist' = [filelist EXCEPT ![fidx].sha256 = sha256]
    /\ fidx' = fidx + 1
    /\ pc' = "scan"
    /\ UNCHANGED << argv, disk, args, totals, fp, local, line, sha256,
                    stdout, dumped, walked, exitstatus >>

\* lines 201-202
RemoveDuplicates ==
    /\ pc = "scan"
    /\ fidx > Len(filelist)
    /\ filelist' = IF ~args.include THEN RemoveDuplicatesList(filelist)
                   ELSE filelist
    /\ pc' = "totals"
    /\ UNCHANGED << argv, disk, args, totals, fidx, fp, local, line, sha256,
                    stdout, dumped, walked, exitstatus >>

\* lines 204-213; the assertion of line 213 ends the run with status 1
Totals ==
    /\ pc = "totals"
    /\ totals' = TotalsOf(filelist, totals)
    /\ IF totals'.tlines - totals'.tcode - totals'.tcomments
              - totals'.tblanks = 0
       THEN pc' = "report" /\ exitstatus' = exitstatus
       ELSE pc' = "exit" /\ exitstatus' = << 1 >>
    /\ UNCHANGED << argv, disk, args, filelist, fidx, fp, local, line,
                    sha256, stdout, dumped, walked >>

\* line 215
Report ==
    /\ pc = "report"
    /\ stdout' = stdout \o ReportOf(args, filelist, totals)
    /\ pc' = "time"
    /\ UNCHANGED << argv, disk, args, filelist, totals, fidx, fp, local,
                    line, sha256, dumped, walked, exitstatus >>

\* lines 217-222, then the script ends
Finish ==
    /\ pc = "time"
    /\ stdout' = IF args.time THEN Append(stdout, [row |-> "runtime"])
                 ELSE stdout
    /\ exitstatus' = << 0 >>
    /\ pc' = "exit"
    /\ UNCHANGED << argv, disk, args, filelist, totals, fidx, fp, local,
                    line, sha256, dumped, walked >>

Next ==
    \/ Commandline
    \/ CommandlineError
    \/ Listfiles
    \/ Output
    \/ ScanfileBegin
    \/ ScanfileLine
    \/ ScanfileEnd
    \/ RemoveDuplicates
    \/ Totals
    \/ Report
    \/ Finish

Spec == Init /\ [][Next]_vars

SpecScan == InitScan /\ [][Next]_vars

(***************************************************************************)
(* The loops of lines 384-403, pass by pass: the for loop over the block   *)
(* comment pairs of the rule and, inside it, the while loop that runs as   *)
(* long as the start token is in the line.  pc is "for" before the first   *)
(* pair is taken, "while" at the test of the while loop and "after" at     *)
(* line 414.                                                               *)
(***************************************************************************)
\* lines 399, 401: line.replace(old, "", 1), its argument evaluated once,
\* before the call
Replace1(text, old) ==
    CHOOSE r \in { ReplaceFirst(text, x) : x \in {old} } : TRUE

\* WhileStep, as it was without the test of lines 392-396 that ends the
\* loop when no end token is found
WhileStepUnfixed(text, strblock, endblock, inblock) ==
    LET spos == Find(text, strblock, 0)
        epos == Find(text, endblock, spos) + Len(endblock)
    IN  IF Contains(text, endblock)
        THEN [ line    |-> Replace1(text, Slice(text, spos, epos)),
               inblock |-> inblock, break |-> FALSE ]
        ELSE [ line    |-> Replace1(text, Slice(text, spos, Len(text))),
               inblock |-> TRUE, break |-> FALSE ]

\* lines 389-403: one pass of the body of the while loop
WhileStep(text, strblock, endblock, inblock) ==
    LET spos == Find(text, strblock, 0)
        epos == Find(text, endblock, spos)
    IN  IF epos > 0
        THEN IF Contains(text, endblock)
             THEN [ line    |-> Replace1(text,
                                    Slice(text, spos, epos + Len(endblock))),
                    inblock |-> inblock, break |-> FALSE ]
             ELSE [ line    |-> Replace1(text, Slice(text, spos, Len(text))),
                    inblock |-> TRUE, break |-> FALSE ]
        ELSE [ line |-> text, inblock |-> inblock, break |-> TRUE ]

\* line 384: the for loop goes on to the pair after the one in strblock,
\* or ends
ForNext(bcomm, st) ==
    LET k == CHOOSE i \in 1 .. Len(bcomm) : bcomm[i].str = st.strblock
    IN  IF k < Len(bcomm)
        THEN [ pc |-> "while",
               local |-> [ st EXCEPT !.strblock = bcomm[k + 1].str,
                                     !.endblock = bcomm[k + 1].end ] ]
        ELSE [ pc |-> "after", local |-> st ]

\* the pieces the lines handed to the loop are made of
WhilePieces == { << "/", "*" >>, << "*", "/" >>, << "x" >>, << " " >> }

RECURSIVE Concat(_)
Concat(ps) == IF ps = << >> THEN << >> ELSE Head(ps) \o Concat(Tail(ps))

\* the lines that reach line 383: not blank
WhileLines ==
    { l \in { Concat(ps) :
                ps \in UNION { [1 .. k -> WhilePieces] : k \in 1 .. MaxPieces } } :
          Strip(l) # << >> }

WhileTrees ==
    { << File(TopDir, name, l \o << NL >>) >> :
          name \in {NameC, NamePL}, l \in WhileLines }

\* lines 357-383: scanfile has read the first line of the only file of the
\* tree, counted and stripped it, and is at line 383
InitWhile ==
    /\ pc = "for"
    /\ argv = Argv({}, FALSE, TopDir)
    /\ disk \in WhileTrees
    /\ args = ParseArgs(argv)
    /\ filelist = LET f == ListFiles(disk, args.path)[1]
                  IN  << [ f EXCEPT !.lang = Resolve(f.extension),
                                    !.lines = 1 ] >>
    /\ totals = TotalsInit
    /\ fidx = 1
    /\ fp = << >>
    /\ local = LocalInit
    /\ line = Strip(disk[1].bytes)
    /\ sha256 = disk[1].bytes
    /\ stdout = << >>
    /\ dumped = FALSE
    /\ walked = TRUE
    /\ exitstatus = << >>

\* lines 383-386: the first pair of the rule is taken, if it has one
ForBegin ==
    /\ pc = "for"
    /\ ~local.inblock
    /\ LET bcomm == langs[filelist[fidx].lang].bcomm
       IN  IF bcomm = << >>
           THEN pc' = "after" /\ local' = local
           ELSE /\ pc' = "while"
                /\ local' = [ local EXCEPT !.strblock = bcomm[1].str,
                                           !.endblock = bcomm[1].end ]
    /\ UNCHANGED << argv, disk, args, filelist, totals, fidx, fp, line,
                    sha256, stdout, dumped, walked, exitstatus >>

\* lines 388-403: the start token is in the line, the body of the while
\* loop runs once
WhileBody ==
    /\ pc = "while"
    /\ Contains(line, local.strblock)
    /\ LET w == WhileStep(line, local.strblock, local.endblock,
                          local.inblock)
           st == [ local EXCEPT !.inblock = w.inblock ]
           next == ForNext(langs[filelist[fidx].lang].bcomm, st)
       IN  /\ line' = w.line
           /\ IF w.break
              THEN pc' = next.pc /\ local' = next.local
              ELSE pc' = "while" /\ local' = st
    /\ UNCHANGED << argv, disk, args, filelist, totals, fidx, fp, sha256,
                    stdout, dumped, walked, exitstatus >>

\* line 388: the start token is not in the line, the while loop ends
WhileExit ==
    /\ pc = "while"
    /\ ~Contains(line, local.strblock)
    /\ LET next == ForNext(langs[filelist[fidx].lang].bcomm, local)
       IN  pc' = next.pc /\ local' = next.local
    /\ UNCHANGED << argv, disk, args, filelist, totals, fidx, fp, line,
                    sha256, stdout, dumped, walked, exitstatus >>

NextWhile ==
    \/ ForBegin
    \/ WhileBody
    \/ WhileExit

\* the interpreter runs one thread: a pass that can be made is made
SpecWhile == InitWhile /\ [][NextWhile]_vars /\ WF_vars(NextWhile)

(***************************************************************************)
(* The claims.                                                             *)
(***************************************************************************)
Records == { filelist[i] : i \in 1 .. Len(filelist) }

\* scanfile is inside its loop over the lines of filelist[fidx]
Scanning == pc = "lines"

\* the lines of the file being scanned, and how many of them are read
AllLines == SplitLines(Decode(Bytes(disk, filelist[fidx])))
Read == Len(AllLines) - Len(fp)

Counts(f) == << f.lines, f.code, f.comments, f.blanks >>

\* C1: in every state of a scan, after every line read and at the end, each
\* record has lines = code + comments + blanks, and so have the totals of
\* the run once they are summed.
C1_LinesAddUp ==
    /\ \A f \in Records : f.lines = f.code + f.comments + f.blanks
    /\ totals.tlines = totals.tcode + totals.tcomments + totals.tblanks

\* C1 witness: a file is read to its end and has lines of all three kinds
C1_Witness ==
    /\ Scanning /\ fp = << >>
    /\ filelist[fidx].code > 0
    /\ filelist[fidx].comments > 0
    /\ filelist[fidx].blanks > 0

\* C2: the three lines "int x; /* start", "still comment", "end */ int y;"
\* scanned under the C rule (block pair /* */, line prefix //) count as
\* Code, Comment, Code: 3 lines, 2 code, 1 comment, 0 blank.
C2_BlockExampleCounts ==
    \A f \in Records :
        (f.lang = "C" /\ f.sha256 = BlockExample)
            => Counts(f) = << 3, 2, 1, 0 >>

\* a line that leaves a block comment open: it holds the start token of a
\* pair of the rule and no end token
OpensBlock(rule, text) ==
    /\ \E k \in 1 .. Len(rule.bcomm) : Contains(text, rule.bcomm[k].str)
    /\ \A k \in 1 .. Len(rule.bcomm) : ~Contains(text, rule.bcomm[k].end)

\* a line among those read opened a block comment that no later line of
\* the file ends
LeftOpen ==
    LET rule == langs[filelist[fidx].lang]
    IN  \E k \in 1 .. Read :
            /\ OpensBlock(rule, AllLines[k])
            /\ \A j \in (k + 1) .. Len(AllLines) :
                   \A b \in 1 .. Len(rule.bcomm) :
                       ~Contains(AllLines[j], rule.bcomm[b].end)

\* C3: once a line has opened a block comment that no later line of the
\* file ends, no further line of the file is counted as code: every later
\* line that is not blank is counted as a comment.
C3_NoCodeAfterOpenBlock ==
    [][ (Scanning /\ fp # << >> /\ LeftOpen)
            => /\ filelist'[fidx].code = filelist[fidx].code
               /\ Strip(Head(fp)) # << >>
                      => filelist'[fidx].comments
                             = filelist[fidx].comments + 1 ]_vars

\* C4: the lines "code();", "__END__", "more(); ", "" scanned under a rule
\* with the end of code marker __END__ and no block comments (Perl) count
\* as 4 lines, 2 code, 2 comments, 0 blank: after the marker every line is
\* a comment, an empty one too.
C4_SentinelExampleCounts ==
    \A f \in Records :
        (f.lang = "Perl" /\ f.sha256 = SentinelExample)
            => Counts(f) = << 4, 2, 2, 0 >>

Sentinels(rule) == { rule.endcode[k] : k \in 1 .. Len(rule.endcode) }

\* C5: in every pass of the loop over the lines of a file: endcode becomes
\* true only on a line that is counted as code and whose text is exactly
\* one of the rule's end of code markers, and it does become true on
\* such a line; once true it stays true to the end of the file and no
\* later line is counted as code; a rule without markers never sets it.
C5_EndCode ==
    [][ (Scanning /\ fp # << >>)
            => LET rule == langs[filelist[fidx].lang]
                   text == Strip(Head(fp))
                   coded == filelist'[fidx].code = filelist[fidx].code + 1
               IN  /\ (~local.endcode /\ local'.endcode)
                          => /\ coded
                             /\ line' \in Sentinels(rule)
                             /\ rule.bcomm = << >> => text \in Sentinels(rule)
                   /\ (~local.endcode /\ coded /\ line' \in Sentinels(rule))
                          => local'.endcode
                   /\ local.endcode
                          => /\ local'.endcode
                             /\ filelist'[fidx].code = filelist[fidx].code
                   /\ rule.endcode = << >> => ~local'.endcode ]_vars

\* C5 witness: the marker has been met and a later line of the file, that
\* would have been code, has been read
C5_Witness ==
    /\ Scanning
    /\ local.endcode
    /\ Read >= 2
    /\ Strip(AllLines[Read]) = Line1
    /\ Strip(AllLines[Read - 1]) = EndMarker

\* the positions of list whose digest no earlier position has
FirstOfDigest(list) ==
    { i \in 1 .. Len(list) :
          \A j \in 1 .. (i - 1) : list[j].sha256 # list[i].sha256 }

\* kept is list with some records left out, the others in their order
IsSubsequence(kept, list) ==
    \E m \in [1 .. Len(kept) -> 1 .. Len(list)] :
        /\ \A k \in 1 .. Len(kept) : kept[k] = list[m[k]]
        /\ \A k, l \in 1 .. Len(kept) : k < l => m[k] < m[l]

\* C6: the step after the scans keeps, without --include, exactly the
\* first record of every digest, in the order of the enumeration, and
\* with --include every record.
C6_Dedup ==
    [][ (pc = "scan" /\ pc' = "totals")
            => IF args.include
               THEN filelist' = filelist
               ELSE /\ IsSubsequence(filelist', filelist)
                    /\ { filelist'[k] : k \in 1 .. Len(filelist') }
                           = { filelist[i] : i \in FirstOfDigest(filelist) }
                    /\ \A k, l \in 1 .. Len(filelist') :
                           k # l => filelist'[k].sha256 # filelist'[l].sha256
      ]_vars

\* C6 witness: two files with the same text were scanned and one record is
\* left of them
C6_Witness ==
    /\ pc = "totals"
    /\ ~args.include
    /\ Len(ListFiles(disk, args.path)) = 2
    /\ Len(filelist) = 1
    /\ filelist[1].sha256 = Text1

Counted(list) ==
    { i \in 1 .. Len(list) : list[i].lang # None /\ list[i].size > 0 }

RECURSIVE SumOver(_, _, _)
SumOver(list, idx, field) ==
    IF idx = {} THEN 0
    ELSE LET i == CHOOSE k \in idx : TRUE
         IN  list[i][field] + SumOver(list, idx \ {i}, field)

\* C7: whatever the report, the totals row holds the number of, and the
\* sums over, the records kept that have a language and are not empty
\* files, and its lines are its code, comments and blanks together.
C7_Totals ==
    (pc = "time")
        => LET row == stdout[Len(stdout)]
               idx == Counted(filelist)
           IN  /\ row.row = "summary"
               /\ row.files = Cardinality(idx)
               /\ row.blanks = SumOver(filelist, idx, "blanks")
               /\ row.comments = SumOver(filelist, idx, "comments")
               /\ row.code = SumOver(filelist, idx, "code")
               /\ row.lines = SumOver(filelist, idx, "lines")
               /\ row.lines = row.code + row.comments + row.blanks

\* C8: whatever the report, what is printed is what would be printed were
\* the records without a language (unknown extension, or a file of no
\* bytes) not in the list: they have no row and add to no row.
C8_SkippedNotReported ==
    (pc = "time")
        => stdout = ReportOf(args,
                             SelectSeq(filelist, LAMBDA f : f.lang # None),
                             totals)

\* C9: when the registry is dumped, the file tree has not been looked at
\* and no file has been scanned.
C9_DumpBeforeWalk ==
    dumped => (~walked /\ fidx = 0 /\ filelist = << >>)

\* C10: a run whose command line parses ends with exit status 0.
C10_ExitZero ==
    (pc = "exit" /\ ~ParseFails(argv)) => exitstatus = << 0 >>

\* the lines of the file a record was made for, as scanfile reads them
LinesOf(f) == SplitLines(Decode(Bytes(disk, f)))

\* the parts of a rule the classification of a line depends on
RuleOf(f) ==
    [ bcomm   |-> langs[f.lang].bcomm,
      comment |-> langs[f.lang].comment,
      endcode |-> langs[f.lang].endcode ]

\* the scan of the record has come to its end
Scanned(f) == f.sha256 # NoneText

\* C11: two records with the same rule and the same lines, both scanned to
\* their end, have the same lines, code, comment and blank counts and the
\* same digest, whatever was scanned before either of them.
C11_Deterministic ==
    \A i, j \in 1 .. Len(filelist) :
        ( /\ Scanned(filelist[i]) /\ Scanned(filelist[j])
          /\ RuleOf(filelist[i]) = RuleOf(filelist[j])
          /\ LinesOf(filelist[i]) = LinesOf(filelist[j]) )
            => /\ Counts(filelist[i]) = Counts(filelist[j])
               /\ filelist[i].sha256 = filelist[j].sha256

\* C11 witness: two files of the same language and the same text, the text
\* one that ends past the end of code marker, are both scanned
C11_Witness ==
    /\ pc = "scan" /\ fidx = 3
    /\ filelist[1].lang = "Perl" /\ filelist[2].lang = "Perl"
    /\ filelist[1].path # filelist[2].path
    /\ LinesOf(filelist[1]) = SplitLines(Text3)
    /\ LinesOf(filelist[2]) = SplitLines(Text3)
    /\ Scanned(filelist[1]) /\ Scanned(filelist[2])

\* no language of the registry lists the extension
Unlisted(extension) ==
    \A l \in DOMAIN langs : extension \notin langs[l].ext

\* C12: scanfile on a record of size zero, or whose extension no language
\* lists, returns at once: no file is opened and no line read, the run goes
\* on to the next record without an error, and the record is as it was made:
\* all four counts zero, no digest, no language (for a file of size zero
\* even when its extension is listed).
C12_Skipped ==
    [][ ( /\ pc = "scan" /\ fidx <= Len(filelist)
          /\ \/ filelist[fidx].size = 0
             \/ Unlisted(filelist[fidx].extension) )
            => /\ filelist' = filelist
               /\ Counts(filelist'[fidx]) = << 0, 0, 0, 0 >>
               /\ filelist'[fidx].sha256 = NoneText
               /\ filelist'[fidx].lang = None
               /\ fp' = << >>
               /\ pc' = "scan" /\ fidx' = fidx + 1
               /\ exitstatus' = << >> /\ stdout' = stdout ]_vars

\* C12 witness: an empty file with a listed extension and a file with
\* bytes and an extension that is not listed have both been passed over
C12_Witness ==
    /\ pc = "scan" /\ fidx = 3
    /\ filelist[1].size = 0 /\ ~Unlisted(filelist[1].extension)
    /\ filelist[2].size > 0 /\ Unlisted(filelist[2].extension)
    /\ filelist[1].lang = None /\ filelist[2].lang = None

\* the rows of counts printed, the totals row apart
DetailRows == SelectSeq(stdout, LAMBDA r : r.row = "detail")

\* the positions of list that hold a record with a language
Resolved(list) == { i \in 1 .. Len(list) : list[i].lang # None }

\* C13: the report by file prints exactly one row for each record kept
\* that has a language, none for any other record, and the rows are in
\* non-increasing order of their code counts.
C13_ByFile ==
    (pc = "time" /\ ~args.bylang /\ ~args.bygroup)
        => LET rows == DetailRows
               idx == Resolved(filelist)
           IN  /\ Len(rows) = Cardinality(idx)
               /\ \E m \in [1 .. Len(rows) -> idx] :
                      /\ \A k, l \in 1 .. Len(rows) : k # l => m[k] # m[l]
                      /\ \A k \in 1 .. Len(rows) :
                             /\ rows[k].text = filelist[m[k]].shortname
                             /\ rows[k].files = 1
                             /\ << rows[k].lines, rows[k].code,
                                   rows[k].comments, rows[k].blanks >>
                                    = Counts(filelist[m[k]])
               /\ \A k \in 1 .. (Len(rows) - 1) :
                      rows[k].code >= rows[k + 1].code

\* C13 witness: the report by file of three records, one without a language
\* first in the list, then two with a language, the one with less code first
C13_Witness ==
    /\ pc = "time" /\ ~args.bylang /\ ~args.bygroup
    /\ Len(filelist) = 3
    /\ filelist[1].lang = None
    /\ filelist[2].lang # None /\ filelist[3].lang # None
    /\ filelist[2].code < filelist[3].code
    /\ Len(DetailRows) = 2

\* the row has the number of, and the sums over, the records at idx
RowSums(r, idx) ==
    /\ r.files = Cardinality(idx)
    /\ r.blanks = SumOver(filelist, idx, "blanks")
    /\ r.comments = SumOver(filelist, idx, "comments")
    /\ r.code = SumOver(filelist, idx, "code")
    /\ r.lines = SumOver(filelist, idx, "lines")

\* the positions of stdout where a directory is named
DirLines == { p \in 1 .. Len(stdout) : stdout[p].row = "dir" }

\* C14: the report by language prints one row for each language that a
\* record kept has, in ascending order of the language names, and the
\* report by directory one row for each display path of a record kept, in
\* ascending order of the paths; every row holds the number of, and the
\* sums of blanks, comments, code and lines over, all the records of the
\* report with its key (by language: the records with a language; by
\* directory: every record).  No key has two rows, the last group has its
\* row, and records without a language in the sorted list split no group.
C14_Grouped ==
    (pc = "time" /\ (args.bylang \/ args.bygroup))
        => IF args.bylang
           THEN LET rows == DetailRows
                    keys == { filelist[i].lang : i \in Resolved(filelist) }
                IN  /\ Len(rows) = Cardinality(keys)
                    /\ { rows[k].text : k \in 1 .. Len(rows) } = keys
                    /\ \A k \in 1 .. (Len(rows) - 1) :
                           LangRank(rows[k].text) < LangRank(rows[k + 1].text)
                    /\ \A k \in 1 .. Len(rows) :
                           RowSums(rows[k],
                                   { i \in 1 .. Len(filelist) :
                                         filelist[i].lang = rows[k].text })
           ELSE LET keys == { f.shortpath : f \in Records }
                IN  /\ Cardinality(DirLines) = Cardinality(keys)
                    /\ { stdout[p].text : p \in DirLines } = keys
                    /\ Len(DetailRows) = Cardinality(keys)
                    /\ \A p, q \in DirLines :
                           p < q => StrLess(stdout[p].text, stdout[q].text)
                    /\ \A p \in DirLines :
                           /\ p < Len(stdout)
                           /\ stdout[p + 1].row = "detail"
                           /\ RowSums(stdout[p + 1],
                                      { i \in 1 .. Len(filelist) :
                                            filelist[i].shortpath
                                                = stdout[p].text })

\* C14 witness: the report by language of three records that are not in the
\* order of their languages, two of one language with a record without a
\* language between them in the list
C14_Witness ==
    /\ pc = "time" /\ args.bylang
    /\ Len(filelist) = 3
    /\ filelist[1].lang = "Perl" /\ filelist[1].lines > 0
    /\ filelist[2].lang = None
    /\ filelist[3].lang = "Perl" /\ filelist[3].lines > 0
    /\ Len(DetailRows) = 1

\* the token is in the text at position p (the first position is 1)
At(text, token, p) ==
    /\ p + Len(token) - 1 <= Len(text)
    /\ SubSeq(text, p, p + Len(token) - 1) = token

Occurrences(text, token) == { p \in 1 .. Len(text) : At(text, token, p) }

\* the text without its complete block comments of one pair: the leftmost
\* start token and all up to the end of the first end token at or after it
\* are cut out, and so again on what is left
RECURSIVE ExcisedPair(_, _)
ExcisedPair(text, pair) ==
    LET starts == Occurrences(text, pair.str)
    IN  IF starts = {} THEN text
        ELSE LET s == CHOOSE p \in starts : \A q \in starts : p <= q
                 ends == { p \in Occurrences(text, pair.end) : p >= s }
             IN  IF ends = {} THEN text
                 ELSE LET e == CHOOSE p \in ends : \A q \in ends : p <= q
                      IN  ExcisedPair(
                              SubSeq(text, 1, s - 1)
                                  \o SubSeq(text, e + Len(pair.end), Len(text)),
                              pair)

RECURSIVE Excised(_, _)
Excised(text, bcomm) ==
    IF bcomm = << >> THEN text
    ELSE Excised(ExcisedPair(text, Head(bcomm)), Tail(bcomm))

\* a complete block comment is in the text
HasComplete(text, bcomm) ==
    \E k \in 1 .. Len(bcomm) :
        \E s \in Occurrences(text, bcomm[k].str) :
            \E e \in Occurrences(text, bcomm[k].end) : e >= s

\* the text opens a block comment that it does not close
Dangling(text, bcomm) ==
    \E k \in 1 .. Len(bcomm) :
        Occurrences(Excised(text, bcomm), bcomm[k].str) # {}

\* the text begins with a line comment prefix of the rule
Prefixed(rule, text) ==
    \E k \in 1 .. Len(rule.comment) : At(text, rule.comment[k], 1)

\* scanfile is about to read a line that is not blank, with no block
\* comment open and the end of code marker not met
NormalLine ==
    /\ Scanning /\ fp # << >>
    /\ ~local.inblock /\ ~local.endcode
    /\ Strip(Head(fp)) # << >>

\* the pass of the loop counts the line as a comment, resp. as code
AsComment ==
    /\ filelist'[fidx].comments = filelist[fidx].comments + 1
    /\ filelist'[fidx].code = filelist[fidx].code
    /\ filelist'[fidx].blanks = filelist[fidx].blanks

AsCode ==
    /\ filelist'[fidx].code = filelist[fidx].code + 1
    /\ filelist'[fidx].comments = filelist[fidx].comments
    /\ filelist'[fidx].blanks = filelist[fidx].blanks

\* C15: with no block comment open, a pass of the loop leaves no complete
\* block comment in the line; when the line opens no block comment that it
\* does not close, what is left is the line with every block comment cut
\* out from its start token through its end token, leftmost first, and no
\* block comment is open for the next line.  `/*  */ if x; /* */ ..` is
\* left as ` if x;  ..` and counted as code.
C15_SameLineBlocks ==
    [][ NormalLine
            => LET rule == langs[filelist[fidx].lang]
                   text == Strip(Head(fp))
               IN  /\ ~HasComplete(line', rule.bcomm)
                   /\ ~Dangling(text, rule.bcomm)
                          => /\ line' = Excised(text, rule.bcomm)
                             /\ ~local'.inblock
                   /\ (text = Ex4 /\ rule.bcomm = BlockC)
                          => /\ line' = << " ", "i", "f", " ", "x", ";",
                                          " ", " ", ".", "." >>
                             /\ AsCode
                             /\ ~local'.inblock ]_vars

\* C15 witness: `/*  */ if x; /* */ ..` and the line after it have been
\* read under the C rule, both counted as code, no block comment open
C15_Witness ==
    /\ Scanning /\ filelist[fidx].lang = "C"
    /\ Len(AllLines) = 2 /\ Read = 2
    /\ Strip(AllLines[1]) = Ex4
    /\ Strip(AllLines[2]) = Line1
    /\ filelist[fidx].code = 2
    /\ ~local.inblock

C17_PrefixOrCode ==
    [][ (NormalLine /\ line' # << >>)
            => LET rule == langs[filelist[fidx].lang]
               IN  /\ Prefixed(rule, line') => AsComment
                   /\ ~Prefixed(rule, line') => AsCode
                   /\ rule.comment = << >> => AsCode ]_vars

\* C17 witness: `// c` has been read under the CSS rule, which has no line
\* comment prefix, and counted as code
C17_Witness ==
    /\ Scanning /\ filelist[fidx].lang = "CSS"
    /\ Read = 1
    /\ Strip(AllLines[1]) = Line7
    /\ Counts(filelist[fidx]) = << 1, 1, 0, 0 >>

\* C18: with no block comment open, a line whose block comments are all
\* closed on it and of which, once they are cut out, only whitespace is
\* left, or text that apart from leading whitespace begins with a line
\* comment prefix, is counted as a comment and not as code
\* (`/* a */ /* b */`, `/* a */ // b`).
C18_JudgedStripped ==
    [][ NormalLine
            => LET rule == langs[filelist[fidx].lang]
                   text == Strip(Head(fp))
                   rest == Strip(Excised(text, rule.bcomm))
               IN  ( /\ HasComplete(text, rule.bcomm)
                     /\ ~Dangling(text, rule.bcomm)
                     /\ rest = << >> \/ Prefixed(rule, rest) )
                       => AsComment ]_vars

\* the counts of the lines ls scanned under the rule from the locals st on,
\* added to the counts c
RECURSIVE ScanFrom(_, _, _, _)
ScanFrom(rule, st, ls, c) ==
    IF ls = << >> THEN c
    ELSE LET r == ScanLine(rule, st, Head(ls))
         IN  ScanFrom(rule,
                      [ strblock |-> r.strblock, endblock |-> r.endblock,
                        inblock  |-> r.inblock,  endcode  |-> r.endcode ],
                      Tail(ls), Tally(c, r.kind))

\* the counts of the file of record f, were it the only file scanned
CountsAlone(f) ==
    Counts(ScanFrom(langs[f.lang], LocalInit, LinesOf(f),
                    [lines |-> 0, code |-> 0, comments |-> 0, blanks |-> 0]))

\* C19: every call of scanfile begins with no block comment open, no start
\* or end token remembered and the end of code marker not met, whatever the
\* scan of the file before left; and when the scan of a file ends, its
\* counts are those the file has when it is the only file scanned.
C19_StatePerFile ==
    [][ /\ (pc = "scan" /\ fidx <= Len(filelist))
            => /\ ~local'.inblock /\ ~local'.endcode
               /\ local'.strblock = NoneText /\ local'.endblock = NoneText
        /\ (pc = "lines" /\ pc' = "scan")
            => Counts(filelist'[fidx]) = CountsAlone(filelist[fidx])
      ]_vars

\* C19 witness: the scan of a file ended past the end of code marker, the
\* scan of a file with a block comment rule ended with the tokens of the
\* rule remembered, and the scan of a third file has begun, no line read
C19_Witness ==
    /\ Scanning /\ fidx = 3 /\ Read = 0 /\ fp # << >>
    /\ filelist[1].lang = "Perl"
    /\ LinesOf(filelist[1]) = SplitLines(Text3)
    /\ filelist[2].lang # None
    /\ langs[filelist[2].lang].bcomm # << >>
    /\ filelist[2].code > 0
    /\ Scanned(filelist[1]) /\ Scanned(filelist[2])
    /\ ~local.inblock /\ ~local.endcode
    /\ local.strblock = NoneText /\ local.endblock = NoneText

\* C20: the language a record was given is the only language of the
\* registry that lists the record's extension, so that the language does
\* not depend on the order in which the registry is gone through.
C20_OneLanguagePerExtension ==
    \A f \in Records :
        f.lang # None
            => { l \in DOMAIN langs : f.extension \in langs[l].ext }
                   = { f.lang }

\* the leftmost position of the token in the text
Leftmost(text, token) ==
    CHOOSE p \in Occurrences(text, token) :
        \A q \in Occurrences(text, token) : p <= q

\* C21: every pass of the body of the while loop either leaves the loop,
\* the line untouched, when no end token is at or after the leftmost start
\* token, or makes the line shorter by a stretch that begins with the
\* leftmost start token; and the loops over the block comment pairs come to
\* their end for every line and every rule.
C21_WhileTerminates ==
    /\ [][ (pc = "while" /\ Contains(line, local.strblock))
               => LET s == Leftmost(line, local.strblock)
                  IN  \/ /\ pc' # "while"
                         /\ line' = line
                         /\ \A e \in Occurrences(line, local.endblock) : e < s
                      \/ /\ pc' = "while"
                         /\ Len(line') < Len(line)
                         /\ \E n \in Len(local.strblock) .. Len(line) :
                                line' = SubSeq(line, 1, s - 1)
                                            \o SubSeq(line, s + n, Len(line))
         ]_vars
    /\ <>(pc = "after")

\* C21 witness: the loop has ended on `/**//**/` after two passes that each
\* cut a block comment out, nothing of the line is left
C21_Witness ==
    /\ pc = "after"
    /\ filelist[fidx].lang = "C"
    /\ Strip(disk[1].bytes) = << "/", "*", "*", "/", "/", "*", "*", "/" >>
    /\ line = << >>

====
